---- MODULE Spec2Model ----
(***************************************************************************)
(* dfox-tui: the DatabaseClientUI session object, its database operations  *)
(* (src/dfox-tui/src/db/mysql.rs) and its key-event handlers               *)
(* (src/dfox-tui/src/ui/handlers.rs, src/dfox-tui/src/ui/screens.rs).      *)
(*                                                                         *)
(* Strings are sequences of one-character strings.  Option<T> is <<>> for  *)
(* None and <<v>> for Some(v).  A Result is a record [ok, val, err].       *)
(*                                                                         *)
(* handlers.rs and screens.rs reach the database operations               *)
(* (connect_to_default_db, connect_to_selected_db, fetch_databases,        *)
(* fetch_tables, update_tables, describe_table, execute_sql_query) through *)
(* the PostgresUI trait; the bodies modelled here are those of the same    *)
(* methods in db/mysql.rs (impl MySQLUI for DatabaseClientUI).             *)
(*                                                                         *)
(* Each operation runs in steps: it acquires the mutex (lock), runs its    *)
(* body under it, and drops the guard when it returns (drop_guard).  A     *)
(* handler that awaits an operation continues at its own label once the    *)
(* operation has returned; nothing else runs in between.                   *)
(***************************************************************************)
EXTENDS Integers, Sequences, FiniteSets, TLC

\* ------------------------------------------------------------------ bounds
MaxInput == 1        \* characters typed into the connection fields
MaxConns == 3        \* connections the backend opens in one run
MaxRows  == 2        \* longest result the backend returns for a query

\* -------------------------------------------------------- program constants
ConnectTimeout == 3  \* Duration::from_secs(3)
MaxDbType_len == Len(<<"Postgres", "MySQL", "SQLite">>)

MaxDbType == 2       \* last index of {Postgres, MySQL, SQLite}

\* ------------------------------------------------------------- strings
Whitespace == {" "}
LowerLetters == <<"s", "e", "l", "c", "t", "x">>
UpperLetters == <<"S", "E", "L", "C", "T", "X">>

\* char::to_uppercase on the letters of the model's alphabet
to_uppercase_char(c) ==
  IF \E i \in DOMAIN LowerLetters : LowerLetters[i] = c
  THEN UpperLetters[CHOOSE i \in DOMAIN LowerLetters : LowerLetters[i] = c]
  ELSE c

\* str::to_uppercase
to_uppercase(s) == [i \in DOMAIN s |-> to_uppercase_char(s[i])]

RECURSIVE trim_start(_)
trim_start(s) ==
  IF s # <<>> /\ Head(s) \in Whitespace THEN trim_start(Tail(s)) ELSE s

RECURSIVE trim_end(_)
trim_end(s) ==
  IF s # <<>> /\ s[Len(s)] \in Whitespace
  THEN trim_end(SubSeq(s, 1, Len(s) - 1))
  ELSE s

\* str::trim
trim(s) == trim_end(trim_start(s))

\* str::starts_with
starts_with(s, p) == Len(s) >= Len(p) /\ SubSeq(s, 1, Len(p)) = p

SELECT == <<"S", "E", "L", "E", "C", "T">>

is_select_case_sensitive(query) == starts_with(trim(query), SELECT)

\* the classification of execute_sql_query: query_upper.starts_with("SELECT")
is_select(query) == starts_with(to_uppercase(trim(query)), SELECT)

\* String::pop / String::push
pop(s) == IF s = <<>> THEN s ELSE SubSeq(s, 1, Len(s) - 1)
push(s, c) == Append(s, c)

None == <<>>
Some(v) == <<v>>

clear_nothing(v) == v

\* Vec::clear
clear(v) == <<>>

\* slice::get with a 0-based index
get(v, i) == IF i < Len(v) THEN Some(v[i + 1]) ELSE None

\* usize::saturating_sub
saturating_sub(a, b) == IF a >= b THEN a - b ELSE 0

\* ------------------------------------------------------------- results
Ok(v) == [ok |-> TRUE, val |-> v, err |-> "none"]
Err(e) == [ok |-> FALSE, val |-> <<>>, err |-> e]
NoResult == [ok |-> FALSE, val |-> <<>>, err |-> "pending"]

NoConnectionMsg == "No database connection available."
TimedOutMsg == "Timed out while trying to connect"
SuccessMessage == "Non-SELECT query executed successfully."
DriverErrors == {"driver error"}

\* ------------------------------------------------------------- backend
\* The database server behind the DbClient contract: a fixed catalogue, and
\* every call may fail with a driver error.
DefaultDb == "mysql"
DatabaseNames == <<"sales", "hr">>
ErrorFetchingDatabases == "Error fetching databases"

\* The server opens connections to the databases it has, and refuses others.
Exists(db) == db = DefaultDb \/ \E i \in DOMAIN DatabaseNames : DatabaseNames[i] = db

TablesOf(db) ==
  CASE db = "sales" -> <<"orders", "customers">>
    [] db = "hr" -> <<"staff">>
    [] OTHER -> <<>>

SchemaOf(table_name) ==
  [table_name |-> table_name,
   columns |-> << [name |-> "id", data_type |-> "int", is_nullable |-> FALSE] >>]

\* serde_json::Value: an object carries its members as (key, value) pairs in
\* the map's iteration order; the other shapes carry none.
JsonObject(members) == [shape |-> "object", members |-> members]
JsonArray == [shape |-> "array", members |-> <<>>]
RowA == JsonObject(<< <<"id", "1">> >>)
RowB == JsonObject(<< <<"id", "2">>, <<"name", "x">> >>)
JsonValues == {RowA, RowB, JsonArray}
QueryResults == UNION {[1..n -> JsonValues] : n \in 0..MaxRows}

\* map.into_iter().collect::<HashMap<String, Value>>()
collect_hash_map(members) ==
  [k \in {members[i][1] : i \in DOMAIN members} |->
     members[CHOOSE i \in DOMAIN members : members[i][1] = k][2]]

RECURSIVE map_all_rows(_)
map_all_rows(rows) ==
  IF rows = <<>> THEN <<>>
  ELSE <<collect_hash_map(Head(rows).members)>> \o map_all_rows(Tail(rows))

\* rows.into_iter().filter_map(|row| if let Value::Object(map) ...).collect()
RECURSIVE filter_map_objects(_)
filter_map_objects(rows) ==
  IF rows = <<>> THEN <<>>
  ELSE IF Head(rows).shape = "object"
       THEN <<collect_hash_map(Head(rows).members)>> \o filter_map_objects(Tail(rows))
       ELSE filter_map_objects(Tail(rows))

\* --------------------------------------------------------------- state
VARIABLES
  current_screen,            \* ScreenState
  current_focus,             \* FocusedWidget
  selected_db_type,          \* usize
  selected_table,            \* usize
  expanded_table,            \* Option<usize>
  databases,                 \* Vec<String>
  tables,                    \* Vec<String>
  table_schemas,             \* HashMap<String, TableSchema>
  sql_editor_content,        \* String
  sql_query_result,          \* Vec<HashMap<String, Value>>
  connection_input,          \* ConnectionInput
  connection_error_message,  \* Option<String>
  connections,               \* db_manager.connections: Vec<Box<dyn DbClient>>
  lock_holder,               \* the Mutex around connections: "none" or the holder
  next_conn,                 \* identity of the next connection the backend opens
  pc,                        \* where the session's single task is
  op,                        \* the database operation in flight
  ret,                       \* return labels of the calls in flight
  res,                       \* the Result the last operation returned
  elapsed,                   \* time units since the timeout was armed
  backend_calls,             \* DbClient calls made by the operation in flight
  pre                        \* session state when the operation was called

ui_vars == <<current_screen, current_focus, selected_db_type, selected_table,
             expanded_table, databases, tables, table_schemas,
             sql_editor_content, connection_input>>
vars == <<current_screen, current_focus, selected_db_type, selected_table,
          expanded_table, databases, tables, table_schemas,
          sql_editor_content, sql_query_result, connection_input,
          connection_error_message, connections, lock_holder, next_conn,
          pc, op, ret, res, elapsed, backend_calls, pre>>

NoOp == [name |-> "none", arg |-> <<>>]
Snapshot ==
  [connections |-> connections,
   sql_query_result |-> sql_query_result,
   table_schemas |-> table_schemas,
   connection_error_message |-> connection_error_message]

\* DatabaseClientUI::new
InitSession ==
  /\ current_screen = "DbTypeSelection"
  /\ current_focus = "TablesList"
  /\ selected_db_type = 0
  /\ selected_table = 0
  /\ expanded_table = None
  /\ databases = <<>>
  /\ tables = <<>>
  /\ table_schemas = <<>>
  /\ sql_editor_content = <<>>
  /\ sql_query_result = <<>>
  /\ connection_input =
       [username |-> <<>>, password |-> <<>>, hostname |-> <<>>,
        current_field |-> "Username"]
  /\ connection_error_message = None
  /\ connections = <<>>
  /\ lock_holder = "none"
  /\ next_conn = 1
  /\ op = NoOp
  /\ ret = <<>>
  /\ res = NoResult
  /\ elapsed = 0
  /\ backend_calls = <<>>
  /\ pre = Snapshot

\* ---------------------------------------------------- calls and returns
\* An `op(...).await` of the session: control enters the operation and comes
\* back at the first label of `labels` when it returns.
Call(name, arg, labels) ==
  /\ op' = [name |-> name, arg |-> arg]
  /\ ret' = labels
  /\ pc' = "op_lock"
  /\ res' = NoResult

\* Return to the caller's label.
Return ==
  /\ pc' = Head(ret)
  /\ ret' = Tail(ret)

\* `connections.lock().await`: waits until the mutex is free, then holds it.
lock ==
  /\ pc = "op_lock"
  /\ lock_holder = "none"
  /\ lock_holder' = op.name
  /\ pc' = "op_run"
  /\ backend_calls' = <<>>
  /\ pre' = Snapshot
  /\ UNCHANGED <<ui_vars, sql_query_result, connection_error_message,
                 connections, next_conn, op, ret, res, elapsed>>

drop_guard_unless_error ==
  /\ pc = "op_exit"
  /\ lock_holder' = (IF res.ok THEN "none" ELSE lock_holder)
  /\ Return
  /\ UNCHANGED <<ui_vars, sql_query_result, connection_error_message,
                 connections, next_conn, op, res, elapsed, backend_calls, pre>>

\* The MutexGuard goes out of scope when the operation returns (by its last
\* expression or by `?`).
drop_guard ==
  /\ pc = "op_exit"
  /\ lock_holder' = "none"
  /\ Return
  /\ UNCHANGED <<ui_vars, sql_query_result, connection_error_message,
                 connections, next_conn, op, res, elapsed, backend_calls, pre>>

\* The backend is asked `name(arg)` on connection `client` and replies `reply`.
\* Every client of the slot is built by MySqlClient::connect.
Engine == "MySQL"

Backend(name, client, arg, reply) ==
  backend_calls' =
    Append(backend_calls, [op |-> name, conn |-> client.id, arg |-> arg,
                           reply |-> reply, engine |-> Engine])

\* MySqlClient::connect(connection_string) for database `db` replies `reply`.
NoClient == [id |-> 0, db |-> "none"]
BackendConnect(db, reply) == Backend("connect", NoClient, <<db>>, reply)

\* --------------------------------------------- operations (db/mysql.rs)
\* What is left alone by an operation that only reads the slot.
ReadOnlyFrame ==
  UNCHANGED <<ui_vars, connection_error_message, connections, lock_holder,
              next_conn, op, ret, elapsed, pre>>

execute_sql_query ==
  /\ pc = "op_run" /\ op.name = "execute_sql_query"
  /\ pc' = "op_exit"
  /\ ReadOnlyFrame
  /\ IF connections # <<>>
     THEN LET client == Head(connections)
              query_trimmed == trim(op.arg)
          IN IF is_select(op.arg)
             THEN \/ \E e \in DriverErrors :
                       /\ Backend("query", client, query_trimmed, Err(e))
                       /\ res' = Err(e)
                       /\ UNCHANGED sql_query_result
                  \/ \E rows \in QueryResults :
                       LET hash_map_results == filter_map_objects(rows)
                       IN /\ Backend("query", client, query_trimmed, Ok(rows))
                          /\ sql_query_result' = hash_map_results
                          /\ res' = Ok([rows |-> hash_map_results, message |-> None])
             ELSE /\ UNCHANGED sql_query_result
                  /\ \/ \E e \in DriverErrors :
                          /\ Backend("execute", client, query_trimmed, Err(e))
                          /\ res' = Err(e)
                     \/ /\ Backend("execute", client, query_trimmed, Ok(<<>>))
                        /\ res' = Ok([rows |-> <<>>, message |-> Some(SuccessMessage)])
     ELSE /\ res' = Err(NoConnectionMsg)
          /\ UNCHANGED <<sql_query_result, backend_calls>>

describe_table ==
  /\ pc = "op_run" /\ op.name = "describe_table"
  /\ pc' = "op_exit"
  /\ ReadOnlyFrame
  /\ UNCHANGED sql_query_result
  /\ IF connections # <<>>
     THEN LET client == Head(connections)
          IN \/ \E e \in DriverErrors :
                  /\ Backend("describe_table", client, op.arg, Err(e))
                  /\ res' = Err(e)
             \/ /\ Backend("describe_table", client, op.arg, Ok(SchemaOf(op.arg[1])))
                /\ res' = Ok(SchemaOf(op.arg[1]))
     ELSE /\ res' = Err(NoConnectionMsg)
          /\ UNCHANGED backend_calls

fetch_databases ==
  /\ pc = "op_run" /\ op.name = "fetch_databases"
  /\ pc' = "op_exit"
  /\ ReadOnlyFrame
  /\ UNCHANGED sql_query_result
  /\ IF connections # <<>>
     THEN LET client == Head(connections)
          IN \/ \E e \in DriverErrors :
                  /\ Backend("list_databases", client, <<>>, Err(e))
                  /\ res' = Err(e)
             \/ /\ Backend("list_databases", client, <<>>, Ok(DatabaseNames))
                /\ res' = Ok(DatabaseNames)
     ELSE /\ res' = Err(NoConnectionMsg)
          /\ UNCHANGED backend_calls

fetch_tables_or_empty ==
  /\ pc = "op_run" /\ op.name = "fetch_tables"
  /\ pc' = "op_exit"
  /\ ReadOnlyFrame
  /\ UNCHANGED sql_query_result
  /\ IF connections # <<>>
     THEN LET client == Head(connections)
          IN \/ \E e \in DriverErrors :
                  /\ Backend("list_tables", client, <<>>, Err(e))
                  /\ res' = Err(e)
             \/ /\ Backend("list_tables", client, <<>>, Ok(TablesOf(client.db)))
                /\ res' = Ok(TablesOf(client.db))
     ELSE /\ res' = Ok(<<>>)
          /\ UNCHANGED backend_calls

fetch_tables ==
  /\ pc = "op_run" /\ op.name = "fetch_tables"
  /\ pc' = "op_exit"
  /\ ReadOnlyFrame
  /\ UNCHANGED sql_query_result
  /\ IF connections # <<>>
     THEN LET client == Head(connections)
          IN \/ \E e \in DriverErrors :
                  /\ Backend("list_tables", client, <<>>, Err(e))
                  /\ res' = Err(e)
             \/ /\ Backend("list_tables", client, <<>>, Ok(TablesOf(client.db)))
                /\ res' = Ok(TablesOf(client.db))
     ELSE /\ res' = Err(NoConnectionMsg)
          /\ UNCHANGED backend_calls

\* update_tables, after its `self.fetch_tables().await`
update_tables ==
  /\ pc = "update_tables"
  /\ tables' = (IF res.ok THEN res.val ELSE <<>>)
  /\ selected_table' = 0
  /\ Return
  /\ UNCHANGED <<current_screen, current_focus, selected_db_type, expanded_table,
                 databases, table_schemas, sql_editor_content, sql_query_result,
                 connection_input, connection_error_message, connections,
                 lock_holder, next_conn, op, res, elapsed, backend_calls, pre>>

NewClient_default(db) == [id |-> next_conn, db |-> DefaultDb]

\* MySqlClient::connect succeeded: the backend hands out a new connection.
NewClient(db) == [id |-> next_conn, db |-> db]

connect_to_selected_db_push ==
  /\ pc = "op_run" /\ op.name = "connect_to_selected_db"
  /\ pc' = "op_exit"
  /\ UNCHANGED <<ui_vars, sql_query_result, connection_error_message,
                 lock_holder, op, ret, elapsed, pre>>
  /\ LET db_name == op.arg[1]
     IN \/ \E e \in DriverErrors :
             /\ BackendConnect(db_name, Err(e))
             /\ res' = Err(e)
             /\ UNCHANGED <<connections, next_conn>>
        \/ /\ next_conn <= MaxConns
           /\ Exists(db_name)
           /\ BackendConnect(db_name, Ok(next_conn))
           /\ connections' = Append(connections, NewClient(db_name))
           /\ next_conn' = next_conn + 1
           /\ res' = Ok(<<>>)

connect_to_selected_db ==
  /\ pc = "op_run" /\ op.name = "connect_to_selected_db"
  /\ pc' = "op_exit"
  /\ UNCHANGED <<ui_vars, sql_query_result, connection_error_message,
                 lock_holder, op, ret, elapsed, pre>>
  /\ LET cleared == clear(connections)
         db_name == op.arg[1]
     IN \/ \E e \in DriverErrors :                             \* connect(..).await?
             /\ BackendConnect(db_name, Err(e))
             /\ connections' = cleared
             /\ res' = Err(e)
             /\ UNCHANGED next_conn
        \/ /\ next_conn <= MaxConns
           /\ Exists(db_name)
           /\ BackendConnect(db_name, Ok(next_conn))
           /\ connections' = Append(cleared, NewClient(db_name))
           /\ next_conn' = next_conn + 1
           /\ res' = Ok(<<>>)

\* connect_to_default_db up to arming `timeout(Duration::from_secs(3), connect)`
connect_to_default_db_start ==
  /\ pc = "op_run" /\ op.name = "connect_to_default_db"
  /\ pc' = "op_await"
  /\ elapsed' = 0
  /\ UNCHANGED <<ui_vars, sql_query_result, connection_error_message, connections,
                 lock_holder, next_conn, op, ret, res, backend_calls, pre>>

\* A time unit passes while the connect is pending; the timer fires at
\* ConnectTimeout, so no time passes beyond it with the attempt pending.
tick ==
  /\ pc = "op_await"
  /\ elapsed < ConnectTimeout
  /\ elapsed' = elapsed + 1
  /\ UNCHANGED <<ui_vars, sql_query_result, connection_error_message, connections,
                 lock_holder, next_conn, pc, op, ret, res, backend_calls, pre>>

connect_to_default_db_clearing ==
  /\ pc = "op_await" /\ op.name = "connect_to_default_db"
  /\ pc' = "op_exit"
  /\ elapsed' = 0
  /\ UNCHANGED <<ui_vars, sql_query_result, lock_holder, op, ret, pre>>
  /\ \/ /\ next_conn <= MaxConns
        /\ BackendConnect(DefaultDb, Ok(next_conn))
        /\ connections' = Append(connections, NewClient(DefaultDb))
        /\ next_conn' = next_conn + 1
        /\ res' = Ok(<<>>)
        /\ UNCHANGED connection_error_message
     \/ \E e \in DriverErrors :
          /\ BackendConnect(DefaultDb, Err(e))
          /\ connection_error_message' = Some(<<"Connection error: ", e>>)
          /\ res' = Err(e)
          /\ connections' = clear(connections)
          /\ UNCHANGED next_conn
     \/ /\ elapsed = ConnectTimeout
        /\ BackendConnect(DefaultDb, Err("no reply"))
        /\ connection_error_message' = Some(<<"Connection timed out">>)
        /\ res' = Err(TimedOutMsg)
        /\ connections' = clear(connections)
        /\ UNCHANGED next_conn

\* connect_to_default_db from `match result` on
connect_to_default_db ==
  /\ pc = "op_await" /\ op.name = "connect_to_default_db"
  /\ pc' = "op_exit"
  /\ elapsed' = 0                                              \* the timer is dropped
  /\ UNCHANGED <<ui_vars, sql_query_result, lock_holder, op, ret, pre>>
  /\ \/ /\ next_conn <= MaxConns                               \* Ok(Ok(client))
        /\ BackendConnect(DefaultDb, Ok(next_conn))
        /\ connections' = Append(connections, NewClient(DefaultDb))
        /\ next_conn' = next_conn + 1
        /\ res' = Ok(<<>>)
        /\ UNCHANGED connection_error_message
     \/ \E e \in DriverErrors :                                \* Ok(Err(e))
          /\ BackendConnect(DefaultDb, Err(e))
          /\ connection_error_message' = Some(<<"Connection error: ", e>>)
          /\ res' = Err(e)
          /\ UNCHANGED <<connections, next_conn>>
     \/ /\ elapsed = ConnectTimeout                            \* Err(_)
        /\ BackendConnect(DefaultDb, Err("no reply"))
        /\ connection_error_message' = Some(<<"Connection timed out">>)
        /\ res' = Err(TimedOutMsg)
        /\ UNCHANGED <<connections, next_conn>>

\* ------------------------------------------------------------ key events
InputChars == {"a"}
SqlTexts == { <<"s", "e", "l", "e", "c", "t">>, <<"s", "e", "t">> }
SqlChars == UNION {{t[i] : i \in DOMAIN t} : t \in SqlTexts}
Key(code) == [code |-> code, c |-> ""]
Char(c) == [code |-> "Char", c |-> c]
KeyCodes ==
  {Key("Up"), Key("Down"), Key("Enter"), Key("Esc"), Key("Tab"), Key("Backspace"),
   Key("F1")} \cup {Char(c) : c \in {"q"} \cup InputChars \cup SqlChars}

\* The characters typed into the connection fields number at most MaxInput, and
\* the characters typed into the SQL editor spell one of SqlTexts.
TypedInField(key) ==
  key.code = "Char" =>
    /\ key.c \in InputChars
    /\ Len(connection_input.username) + Len(connection_input.password)
         + Len(connection_input.hostname) < MaxInput
TypedInEditor(key) ==
  key.code = "Char" =>
    \E t \in SqlTexts : starts_with(t, push(sql_editor_content, key.c))

\* What a handler leaves alone while it runs no database operation.
SlotFrame ==
  UNCHANGED <<sql_query_result, connection_error_message, connections,
              lock_holder, next_conn, elapsed, backend_calls, pre>>

\* The handler returns to the event loop, which renders before the next event.
Handled == pc' = "render" /\ UNCHANGED <<op, ret, res>>

\* The renderer returns to the event loop, which awaits the next key event; the
\* finished call's locals are gone.
AwaitEvent == pc' = "read" /\ op' = NoOp /\ res' = NoResult /\ backend_calls' = <<>>

\* What a renderer leaves alone.
RenderFrame ==
  UNCHANGED <<sql_query_result, connection_error_message, connections,
              lock_holder, next_conn, elapsed, pre>>

\* The event loop hands the key event to the handler of the current screen;
\* on TableView, to the SQL editor's handler while the editor has the focus.
EventOn(screen) == pc = "read" /\ current_screen = screen
EventOnTableView == EventOn("TableView") /\ current_focus # "SqlEditor"
EventOnSqlEditor == EventOn("TableView") /\ current_focus = "SqlEditor"

\* The event loop renders the current screen before it awaits an event.
RenderOf(screens) == pc = "render" /\ current_screen \in screens

\* render_db_type_selection_screen: the engines listed, in index order
db_types == <<"Postgres", "MySQL", "SQLite">>

\* --------------------------------------------- handlers (ui/handlers.rs)
handle_db_type_selection_input(key) ==
  /\ EventOn("DbTypeSelection")
  /\ SlotFrame
  /\ UNCHANGED <<current_focus, selected_table, expanded_table, databases, tables,
                 table_schemas, sql_editor_content, connection_input>>
  /\ CASE key.code = "Up" ->
            /\ selected_db_type' =
                 (IF selected_db_type > 0 THEN selected_db_type - 1 ELSE selected_db_type)
            /\ UNCHANGED current_screen
            /\ Handled
       [] key.code = "Down" ->
            /\ selected_db_type' =
                 (IF selected_db_type < MaxDbType THEN selected_db_type + 1
                  ELSE selected_db_type)
            /\ UNCHANGED current_screen
            /\ Handled
       [] key.code = "Enter" ->
            /\ current_screen' = "ConnectionInput"
            /\ UNCHANGED selected_db_type
            /\ Handled
       [] key = Char("q") ->                                   \* process::exit(0)
            /\ pc' = "exited"
            /\ UNCHANGED <<current_screen, selected_db_type, op, ret, res>>
       [] OTHER ->
            /\ UNCHANGED <<current_screen, selected_db_type>>
            /\ Handled

\* handle_input_event: the arm of one input field
input_field(key, name, next_field) ==
  LET field == connection_input[name]
  IN /\ TypedInField(key)
     /\ connection_input' =
          CASE key.code = "Char" -> [connection_input EXCEPT ![name] = push(field, key.c)]
            [] key.code = "Backspace" -> [connection_input EXCEPT ![name] = pop(field)]
            [] key.code = "Enter" /\ next_field # "none" ->
                 [connection_input EXCEPT !.current_field = next_field]
            [] OTHER -> connection_input

handle_input_event(key) ==
  /\ EventOn("ConnectionInput")
  /\ SlotFrame
  /\ UNCHANGED <<current_focus, selected_db_type, selected_table, expanded_table,
                 databases, tables, table_schemas, sql_editor_content>>
  /\ IF key.code = "Esc"
     THEN /\ current_screen' = "DbTypeSelection"
          /\ UNCHANGED connection_input
          /\ Handled
     ELSE CASE connection_input.current_field = "Username" ->
                 /\ input_field(key, "username", "Password")
                 /\ UNCHANGED current_screen
                 /\ Handled
            [] connection_input.current_field = "Password" ->
                 /\ input_field(key, "password", "Hostname")
                 /\ UNCHANGED current_screen
                 /\ Handled
            [] connection_input.current_field = "Hostname" ->
                 /\ input_field(key, "hostname", "none")
                 /\ UNCHANGED current_screen
                 /\ IF key.code = "Enter"
                    THEN Call("connect_to_default_db", <<>>, <<"handle_input_event_connect">>)
                    ELSE Handled

handle_input_event_connect_always ==
  /\ pc = "handle_input_event_connect"
  /\ current_screen' = "DatabaseSelection"
  /\ SlotFrame
  /\ Handled
  /\ UNCHANGED <<current_focus, selected_db_type, selected_table, expanded_table,
                 databases, tables, table_schemas, sql_editor_content,
                 connection_input>>

\* handle_input_event after `connect_to_default_db(self).await`
handle_input_event_connect ==
  /\ pc = "handle_input_event_connect"
  /\ current_screen' = (IF res.ok THEN "DatabaseSelection" ELSE current_screen)
  /\ SlotFrame
  /\ Handled
  /\ UNCHANGED <<current_focus, selected_db_type, selected_table, expanded_table,
                 databases, tables, table_schemas, sql_editor_content,
                 connection_input>>

handle_database_selection_input(key) ==
  /\ EventOn("DatabaseSelection")
  /\ SlotFrame
  /\ UNCHANGED <<current_screen, current_focus, selected_table, expanded_table,
                 databases, tables, table_schemas, sql_editor_content,
                 connection_input>>
  /\ CASE key.code = "Up" ->
            /\ selected_db_type' =
                 (IF selected_db_type > 0 THEN selected_db_type - 1 ELSE selected_db_type)
            /\ Call("fetch_tables", <<>>, <<"update_tables", "render">>)
       [] key.code = "Down" ->
            /\ selected_db_type' =
                 (IF databases # <<>> /\ selected_db_type < Len(databases) - 1
                  THEN selected_db_type + 1 ELSE selected_db_type)
            /\ Call("fetch_tables", <<>>, <<"update_tables", "render">>)
       [] key.code = "Enter" ->
            /\ UNCHANGED selected_db_type
            /\ LET db_name == get(databases, selected_db_type)
               IN IF db_name # None
                  THEN Call("connect_to_selected_db", db_name,
                            <<"handle_database_selection_input_connect">>)
                  ELSE Call("fetch_tables", <<>>, <<"update_tables", "render">>)
       [] key = Char("q") ->                                   \* process::exit(0)
            /\ pc' = "exited"
            /\ UNCHANGED <<selected_db_type, op, ret, res>>
       [] OTHER ->
            /\ UNCHANGED selected_db_type
            /\ Call("fetch_tables", <<>>, <<"update_tables", "render">>)

handle_database_selection_input_connect_or_back ==
  /\ pc = "handle_database_selection_input_connect"
  /\ current_screen' = (IF res.ok THEN "TableView" ELSE "ConnectionInput")
  /\ Call("fetch_tables", <<>>, <<"update_tables", "render">>)
  /\ SlotFrame
  /\ UNCHANGED <<current_focus, selected_db_type, selected_table, expanded_table,
                 databases, tables, table_schemas, sql_editor_content,
                 connection_input>>

handle_database_selection_input_connect_always ==
  /\ pc = "handle_database_selection_input_connect"
  /\ current_screen' = "TableView"
  /\ Call("fetch_tables", <<>>, <<"update_tables", "render">>)
  /\ SlotFrame
  /\ UNCHANGED <<current_focus, selected_db_type, selected_table, expanded_table,
                 databases, tables, table_schemas, sql_editor_content,
                 connection_input>>

\* handle_database_selection_input after `connect_to_selected_db(self, db_name).await`
handle_database_selection_input_connect ==
  /\ pc = "handle_database_selection_input_connect"
  /\ current_screen' = (IF res.ok THEN "TableView" ELSE current_screen)
  /\ Call("fetch_tables", <<>>, <<"update_tables", "render">>)
  /\ SlotFrame
  /\ UNCHANGED <<current_focus, selected_db_type, selected_table, expanded_table,
                 databases, tables, table_schemas, sql_editor_content,
                 connection_input>>

cycle_focus_two_way(focus) ==
  IF focus = "TablesList" THEN "SqlEditor" ELSE "TablesList"

cycle_focus(focus) ==
  CASE focus = "TablesList" -> "SqlEditor"
    [] focus = "SqlEditor" -> "QueryResult"
    [] focus = "QueryResult" -> "TablesList"

move_selection_up(selected) ==
  IF selected > 0 THEN selected - 1 ELSE selected

move_selection_down(selected) ==
  IF selected < saturating_sub(Len(databases), 1) THEN selected + 1 ELSE selected

handle_table_view_input_collapse_out_of_bounds(key) ==
  /\ EventOnTableView
  /\ SlotFrame
  /\ UNCHANGED <<current_screen, selected_db_type, databases, tables, table_schemas,
                 sql_editor_content, connection_input>>
  /\ CASE key.code = "Tab" ->
            /\ current_focus' = cycle_focus(current_focus)
            /\ UNCHANGED <<selected_table, expanded_table>>
            /\ Handled
       [] key.code = "Up" ->
            /\ selected_table' =
                 (IF current_focus = "TablesList" THEN move_selection_up(selected_table)
                  ELSE selected_table)
            /\ UNCHANGED <<current_focus, expanded_table>>
            /\ Handled
       [] key.code = "Down" ->
            /\ selected_table' =
                 (IF current_focus = "TablesList" THEN move_selection_down(selected_table)
                  ELSE selected_table)
            /\ UNCHANGED <<current_focus, expanded_table>>
            /\ Handled
       [] key.code = "Enter" ->
            /\ UNCHANGED <<current_focus, selected_table>>
            /\ IF current_focus = "TablesList" /\ tables # <<>>
                  /\ selected_table < Len(tables)
               THEN IF Some(selected_table) = expanded_table
                    THEN /\ expanded_table' = None
                         /\ Handled
                    ELSE /\ UNCHANGED expanded_table
                         /\ Call("describe_table", <<tables[selected_table + 1]>>,
                                 <<"handle_table_view_input_describe">>)
               ELSE /\ expanded_table' = None
                    /\ Handled
       [] OTHER ->
            /\ UNCHANGED <<current_focus, selected_table, expanded_table>>
            /\ Handled

handle_table_view_input(key) ==
  /\ EventOnTableView
  /\ SlotFrame
  /\ UNCHANGED <<current_screen, selected_db_type, databases, tables, table_schemas,
                 sql_editor_content, connection_input>>
  /\ CASE key.code = "Tab" ->
            /\ current_focus' = cycle_focus(current_focus)
            /\ UNCHANGED <<selected_table, expanded_table>>
            /\ Handled
       [] key.code = "Up" ->
            /\ selected_table' =
                 (IF current_focus = "TablesList" THEN move_selection_up(selected_table)
                  ELSE selected_table)
            /\ UNCHANGED <<current_focus, expanded_table>>
            /\ Handled
       [] key.code = "Down" ->
            /\ selected_table' =
                 (IF current_focus = "TablesList" THEN move_selection_down(selected_table)
                  ELSE selected_table)
            /\ UNCHANGED <<current_focus, expanded_table>>
            /\ Handled
       [] key.code = "Enter" ->
            /\ UNCHANGED <<current_focus, selected_table>>
            /\ IF current_focus = "TablesList" /\ tables # <<>>
                  /\ selected_table < Len(tables)
               THEN IF Some(selected_table) = expanded_table
                    THEN /\ expanded_table' = None
                         /\ Handled
                    ELSE /\ UNCHANGED expanded_table
                         /\ Call("describe_table", <<tables[selected_table + 1]>>,
                                 <<"handle_table_view_input_describe">>)
               ELSE /\ UNCHANGED expanded_table
                    /\ Handled
       [] OTHER ->
            /\ UNCHANGED <<current_focus, selected_table, expanded_table>>
            /\ Handled

\* HashMap::insert
insert(map, k, v) == [x \in DOMAIN map \cup {k} |-> IF x = k THEN v ELSE map[x]]

handle_table_view_input_describe_no_cache ==
  /\ pc = "handle_table_view_input_describe"
  /\ expanded_table' = (IF res.ok THEN Some(selected_table) ELSE expanded_table)
  /\ SlotFrame
  /\ Handled
  /\ UNCHANGED <<current_screen, current_focus, selected_db_type, selected_table,
                 databases, tables, table_schemas, sql_editor_content,
                 connection_input>>

handle_table_view_input_describe_collapse_on_error ==
  /\ pc = "handle_table_view_input_describe"
  /\ IF res.ok
     THEN /\ table_schemas' = insert(table_schemas, op.arg[1], res.val)
          /\ expanded_table' = Some(selected_table)
     ELSE /\ expanded_table' = None
          /\ UNCHANGED table_schemas
  /\ SlotFrame
  /\ Handled
  /\ UNCHANGED <<current_screen, current_focus, selected_db_type, selected_table,
                 databases, tables, sql_editor_content, connection_input>>

handle_table_view_input_describe_keep_first ==
  /\ pc = "handle_table_view_input_describe"
  /\ IF res.ok
     THEN /\ table_schemas' = insert(table_schemas, op.arg[1], res.val)
          /\ expanded_table' =
               (IF expanded_table = None THEN Some(selected_table) ELSE expanded_table)
     ELSE UNCHANGED <<table_schemas, expanded_table>>
  /\ SlotFrame
  /\ Handled
  /\ UNCHANGED <<current_screen, current_focus, selected_db_type, selected_table,
                 databases, tables, sql_editor_content, connection_input>>

\* handle_table_view_input after `describe_table(self, &selected_table).await`
handle_table_view_input_describe ==
  /\ pc = "handle_table_view_input_describe"
  /\ IF res.ok
     THEN /\ table_schemas' = insert(table_schemas, op.arg[1], res.val)
          /\ expanded_table' = Some(selected_table)
     ELSE UNCHANGED <<table_schemas, expanded_table>>
  /\ SlotFrame
  /\ Handled
  /\ UNCHANGED <<current_screen, current_focus, selected_db_type, selected_table,
                 databases, tables, sql_editor_content, connection_input>>

handle_sql_editor_input(key) ==
  /\ EventOnSqlEditor
  /\ TypedInEditor(key)
  /\ SlotFrame
  /\ UNCHANGED <<current_screen, selected_db_type, selected_table, expanded_table,
                 databases, tables, table_schemas, connection_input>>
  /\ CASE key.code = "Tab" ->
            /\ current_focus' = cycle_focus(current_focus)
            /\ UNCHANGED sql_editor_content
            /\ Call("fetch_tables", <<>>, <<"render_table_view_screen", "render">>)
       [] key.code = "Enter" /\ sql_editor_content = <<>> ->
            /\ UNCHANGED <<current_focus, sql_editor_content>>
            /\ Handled
       [] key.code = "Enter" /\ sql_editor_content # <<>> ->
            /\ UNCHANGED <<current_focus, sql_editor_content>>
            /\ Call("execute_sql_query", sql_editor_content,
                    <<"handle_sql_editor_input_execute">>)
       [] key.code = "Char" ->
            /\ sql_editor_content' = push(sql_editor_content, key.c)
            /\ UNCHANGED current_focus
            /\ Call("fetch_tables", <<>>, <<"render_table_view_screen", "render">>)
       [] key.code = "Backspace" ->
            /\ sql_editor_content' = pop(sql_editor_content)
            /\ UNCHANGED current_focus
            /\ Call("fetch_tables", <<>>, <<"render_table_view_screen", "render">>)
       [] OTHER ->
            /\ UNCHANGED <<current_focus, sql_editor_content>>
            /\ Call("fetch_tables", <<>>, <<"render_table_view_screen", "render">>)

handle_sql_editor_input_execute_keep_on_error ==
  /\ pc = "handle_sql_editor_input_execute"
  /\ sql_query_result' = (IF res.ok THEN res.val.rows ELSE sql_query_result)
  /\ sql_editor_content' =
       (IF res.ok THEN clear(sql_editor_content) ELSE sql_editor_content)
  /\ Call("fetch_tables", <<>>, <<"render_table_view_screen", "render">>)
  /\ UNCHANGED <<current_screen, current_focus, selected_db_type, selected_table,
                 expanded_table, databases, tables, table_schemas, connection_input,
                 connection_error_message, connections, lock_holder, next_conn,
                 elapsed, backend_calls, pre>>

handle_sql_editor_input_execute_or_default ==
  /\ pc = "handle_sql_editor_input_execute"
  /\ sql_query_result' = (IF res.ok THEN res.val.rows ELSE <<>>)
  /\ sql_editor_content' = clear(sql_editor_content)
  /\ Call("fetch_tables", <<>>, <<"render_table_view_screen", "render">>)
  /\ UNCHANGED <<current_screen, current_focus, selected_db_type, selected_table,
                 expanded_table, databases, tables, table_schemas, connection_input,
                 connection_error_message, connections, lock_holder, next_conn,
                 elapsed, backend_calls, pre>>

\* handle_sql_editor_input after `execute_sql_query(self, &sql_content).await`;
\* `self.sql_query_result = result` stores the rows of the returned pair
handle_sql_editor_input_execute ==
  /\ pc = "handle_sql_editor_input_execute"
  /\ sql_query_result' = (IF res.ok THEN res.val.rows ELSE sql_query_result)
  /\ sql_editor_content' = clear(sql_editor_content)
  /\ Call("fetch_tables", <<>>, <<"render_table_view_screen", "render">>)
  /\ UNCHANGED <<current_screen, current_focus, selected_db_type, selected_table,
                 expanded_table, databases, tables, table_schemas, connection_input,
                 connection_error_message, connections, lock_holder, next_conn,
                 elapsed, backend_calls, pre>>

\* ------------------------------------------------ screens (ui/screens.rs)
\* render_db_type_selection_screen, render_connection_input_screen: drawing only
render_static_screen ==
  /\ RenderOf({"DbTypeSelection", "ConnectionInput"})
  /\ AwaitEvent
  /\ RenderFrame
  /\ UNCHANGED <<ui_vars, ret>>

render_database_selection_screen_fetch ==
  /\ RenderOf({"DatabaseSelection"})
  /\ Call("fetch_databases", <<>>, <<"render_database_selection_screen">>)
  /\ SlotFrame
  /\ UNCHANGED ui_vars

\* render_database_selection_screen after `fetch_databases(self).await`
render_database_selection_screen ==
  /\ pc = "render_database_selection_screen"
  /\ databases' = (IF res.ok THEN res.val ELSE <<ErrorFetchingDatabases>>)
  /\ AwaitEvent
  /\ RenderFrame
  /\ UNCHANGED <<current_screen, current_focus, selected_db_type, selected_table,
                 expanded_table, tables, table_schemas, sql_editor_content,
                 connection_input, ret>>

render_table_view_screen_fetch ==
  /\ RenderOf({"TableView"})
  /\ Call("fetch_tables", <<>>, <<"render_table_view_screen", "read">>)
  /\ SlotFrame
  /\ UNCHANGED ui_vars

\* render_table_view_screen after `fetch_tables(self).await`: the fetched list
\* is drawn and dropped
render_table_view_screen ==
  /\ pc = "render_table_view_screen"
  /\ ret' = Tail(ret)
  /\ IF Head(ret) = "read"
     THEN AwaitEvent
     ELSE pc' = Head(ret) /\ UNCHANGED <<op, res, backend_calls>>
  /\ RenderFrame
  /\ UNCHANGED ui_vars

\* ------------------------------------------------------- specifications
Init == InitSession /\ pc = "render"

Next ==
  \/ render_static_screen
  \/ render_database_selection_screen_fetch
  \/ render_database_selection_screen
  \/ render_table_view_screen_fetch
  \/ render_table_view_screen
  \/ \E key \in KeyCodes : handle_db_type_selection_input(key)
  \/ \E key \in KeyCodes : handle_input_event(key)
  \/ handle_input_event_connect
  \/ \E key \in KeyCodes : handle_database_selection_input(key)
  \/ handle_database_selection_input_connect
  \/ \E key \in KeyCodes : handle_table_view_input(key)
  \/ handle_table_view_input_describe
  \/ \E key \in KeyCodes : handle_sql_editor_input(key)
  \/ handle_sql_editor_input_execute
  \/ lock
  \/ execute_sql_query
  \/ describe_table
  \/ fetch_databases
  \/ fetch_tables
  \/ update_tables
  \/ connect_to_selected_db
  \/ connect_to_default_db_start
  \/ tick
  \/ connect_to_default_db
  \/ drop_guard

Spec == Init /\ [][Next]_vars

\* ---------------------------------------------- the operations' contract
\* A caller of the trait drives the operations directly, in any order and on
\* any slot content, one call at a time.
ApiSqlTexts ==
  SqlTexts \cup
  { <<" ", "S", "e", "L", "e", "C", "t", " ", "x", " ">>,
    <<"S", "E", "L", "E", "C", "T", "x">>,
    <<"s", "e", "l", "e", "c">>,
    <<"x", "s", "e", "l", "e", "c", "t">>,
    <<" ">>,
    <<>> }
ApiDbNames == {DatabaseNames[i] : i \in DOMAIN DatabaseNames} \cup {"nosuch"}
ApiTableNames == {"orders", "nosuch"}

ApiFrame ==
  /\ backend_calls' = <<>>
  /\ pre' = Snapshot
  /\ UNCHANGED <<ui_vars, sql_query_result, connection_error_message, connections,
                 lock_holder, next_conn, elapsed>>

call_execute_sql_query ==
  /\ pc = "api"
  /\ \E query \in ApiSqlTexts : Call("execute_sql_query", query, <<"api">>)
  /\ ApiFrame

call_describe_table ==
  /\ pc = "api"
  /\ \E table_name \in ApiTableNames : Call("describe_table", <<table_name>>, <<"api">>)
  /\ ApiFrame

call_fetch_databases ==
  /\ pc = "api"
  /\ Call("fetch_databases", <<>>, <<"api">>)
  /\ ApiFrame

call_fetch_tables ==
  /\ pc = "api"
  /\ Call("fetch_tables", <<>>, <<"api">>)
  /\ ApiFrame

call_update_tables ==
  /\ pc = "api"
  /\ Call("fetch_tables", <<>>, <<"update_tables", "api">>)
  /\ ApiFrame

call_connect_to_selected_db ==
  /\ pc = "api"
  /\ \E db_name \in ApiDbNames :
       Call("connect_to_selected_db", <<db_name>>, <<"api">>)
  /\ ApiFrame

call_connect_to_default_db ==
  /\ pc = "api"
  /\ Call("connect_to_default_db", <<>>, <<"api">>)
  /\ ApiFrame

InitApi == InitSession /\ pc = "api"

NextApi ==
  \/ call_execute_sql_query
  \/ call_describe_table
  \/ call_fetch_databases
  \/ call_fetch_tables
  \/ call_update_tables
  \/ call_connect_to_selected_db
  \/ call_connect_to_default_db
  \/ lock
  \/ execute_sql_query
  \/ describe_table
  \/ fetch_databases
  \/ fetch_tables
  \/ update_tables
  \/ connect_to_selected_db
  \/ connect_to_default_db_start
  \/ tick
  \/ connect_to_default_db
  \/ drop_guard

SpecApi == InitApi /\ [][NextApi]_vars

\* ================================================================ claims
AtExit(name) == pc = "op_exit" /\ op.name = name
LastCall == backend_calls[Len(backend_calls)]
Ids(conns) == {conns[i].id : i \in DOMAIN conns}
ReadOps == {"execute_sql_query", "describe_table", "fetch_databases", "fetch_tables"}

\* C1: a connect_to_selected_db that fails leaves the slot holding exactly the
\* connections it held before the call.
C1_FailedNamedConnectKeepsSlot ==
  (AtExit("connect_to_selected_db") /\ ~res.ok) => connections = pre.connections

\* C2: a connect_to_default_db that succeeds leaves only the newly opened
\* connection in the slot, and every backend call dispatched afterwards goes to
\* the connection opened last, never to an earlier one.
C2_DefaultConnectReplaces ==
  /\ (AtExit("connect_to_default_db") /\ res.ok) =>
        connections = <<[id |-> next_conn - 1, db |-> DefaultDb]>>
  /\ \A i \in DOMAIN backend_calls :
        backend_calls[i].op # "connect" =>
          \A id \in Ids(connections) : id <= backend_calls[i].conn

\* C3: a connect_to_default_db whose connect times out or is refused returns
\* an error, records the message for display and leaves the slot as it was
\* before the attempt; no attempt is pending after ConnectTimeout time units.
C3_FailedDefaultConnect ==
  /\ pc = "op_await" => elapsed <= ConnectTimeout
  /\ (AtExit("connect_to_default_db") /\ ~LastCall.reply.ok) =>
        /\ ~res.ok
        /\ connections = pre.connections
        /\ connection_error_message =
             (IF LastCall.reply.err = "no reply"
              THEN Some(<<"Connection timed out">>)
              ELSE Some(<<"Connection error: ", LastCall.reply.err>>))

C3_Witness ==
  /\ AtExit("connect_to_default_db")
  /\ LastCall.reply.err = "no reply"
  /\ res = Err(TimedOutMsg)
  /\ pre.connections # <<>>
  /\ pre.connection_error_message = None

\* C4: after a successful connect_to_selected_db exactly one connection is in
\* the slot, it is a connection to the named database, and none of the
\* connections held before is in the slot.
C4_NamedConnectReplaces ==
  (AtExit("connect_to_selected_db") /\ res.ok) =>
    /\ Len(connections) = 1
    /\ connections[1].db = op.arg[1]
    /\ connections[1].id \notin Ids(pre.connections)

C4_Witness ==
  /\ AtExit("connect_to_selected_db") /\ res.ok
  /\ Len(pre.connections) >= 2
  /\ op.arg[1] = "hr"

\* C5: in every state of every run of the key-event loop the slot holds at
\* most one connection.
C5_AtMostOneConnection == Len(connections) <= 1

C5_Witness ==
  /\ AtExit("connect_to_selected_db") /\ res.ok
  /\ pre.connections # <<>>
  /\ Len(connections) = 1

\* C6: on an empty slot execute_sql_query, describe_table, fetch_databases and
\* fetch_tables return the no-connection error, call nothing on the backend
\* and leave the cached query result and the schema cache as they were.
C6_NoConnection ==
  (pc = "op_exit" /\ op.name \in ReadOps /\ pre.connections = <<>>) =>
    /\ res = Err(NoConnectionMsg)
    /\ backend_calls = <<>>
    /\ sql_query_result = pre.sql_query_result
    /\ table_schemas = pre.table_schemas

C6_Witness ==
  /\ AtExit("execute_sql_query")
  /\ pre.connections = <<>>
  /\ pre.sql_query_result # <<>>
  /\ res = Err(NoConnectionMsg)

\* C7: the mutex is held by the operation from before it touches the slot
\* until it returns, and it is free whenever control is outside an operation,
\* in particular when the next operation is about to acquire it.
C7_LockDiscipline ==
  IF pc \in {"op_run", "op_await", "op_exit"}
  THEN lock_holder = op.name
  ELSE lock_holder = "none"

C7_Witness ==
  /\ pc = "op_lock" /\ op.name = "fetch_tables"
  /\ ret = <<"update_tables", "render">>
  /\ current_screen = "DatabaseSelection"
  /\ backend_calls # <<>> /\ LastCall.op = "connect" /\ ~LastCall.reply.ok
  /\ lock_holder = "none"

\* The text, after its leading blanks, begins with the letters S E L E C T,
\* each in either case.
SelectLower == <<"s", "e", "l", "e", "c", "t">>
RECURSIVE LeadingBlanks(_)
LeadingBlanks(text) ==
  IF text # <<>> /\ Head(text) = " " THEN 1 + LeadingBlanks(Tail(text)) ELSE 0
StartsWithSelectAnyCase(text) ==
  LET n == LeadingBlanks(text)
  IN /\ Len(text) - n >= 6
     /\ \A k \in 1..6 : text[n + k] \in {SELECT[k], SelectLower[k]}

\* C8: with a connection in the slot, a text that starts with SELECT (any
\* case, after trimming) makes exactly one backend call, a query; any other
\* text makes exactly one backend call, an execute, and on success returns no
\* rows together with the fixed success message.
C8_Classification ==
  (AtExit("execute_sql_query") /\ pre.connections # <<>>) =>
    /\ Len(backend_calls) = 1
    /\ IF StartsWithSelectAnyCase(op.arg)
       THEN backend_calls[1].op = "query"
       ELSE /\ backend_calls[1].op = "execute"
            /\ res.ok => res.val = [rows |-> <<>>, message |-> Some(SuccessMessage)]

C8_Witness ==
  /\ AtExit("execute_sql_query")
  /\ op.arg = <<" ", "S", "e", "L", "e", "C", "t", " ", "x", " ">>
  /\ Len(backend_calls) = 1
  /\ backend_calls[1].op = "query"

\* The row sequence `result` is the object-shaped members of `rows`, in
\* order, each as the mapping from its keys to its values.
ObjectIndexes(rows) == {i \in DOMAIN rows : rows[i].shape = "object"}
NthObject(rows, k) ==
  CHOOSE i \in ObjectIndexes(rows) :
    Cardinality({j \in ObjectIndexes(rows) : j < i}) = k - 1
IsMappingOf(row, members) ==
  /\ DOMAIN row = {members[i][1] : i \in DOMAIN members}
  /\ \A i \in DOMAIN members : row[members[i][1]] = members[i][2]
IsNormalisationOf(result, rows) ==
  /\ Len(result) = Cardinality(ObjectIndexes(rows))
  /\ \A k \in DOMAIN result : IsMappingOf(result[k], rows[NthObject(rows, k)].members)

\* C9: the rows a successful SELECT returns are the object-shaped results of
\* the backend, in the backend's order, as column-to-value mappings; the
\* other results are dropped and no error is produced.
C9_RowNormalisation ==
  (AtExit("execute_sql_query") /\ backend_calls # <<>>
     /\ LastCall.op = "query" /\ LastCall.reply.ok) =>
    /\ res.ok
    /\ res.val.message = None
    /\ IsNormalisationOf(res.val.rows, LastCall.reply.val)

C9_Witness ==
  /\ AtExit("execute_sql_query") /\ res.ok
  /\ backend_calls # <<>> /\ LastCall.op = "query"
  /\ LastCall.reply.val = <<JsonArray, RowB>>
  /\ Len(res.val.rows) = 1

\* handle_sql_editor_input has run the buffered text and is about to redraw.
AfterEditorRun ==
  /\ pc = "op_lock" /\ op.name = "fetch_tables"
  /\ ret = <<"render_table_view_screen", "render">>
  /\ backend_calls # <<>>
  /\ LastCall.op \in {"query", "execute"}

\* C10: after Enter in the SQL editor on a non-empty buffer the cached query
\* result is the outcome of the run when it succeeded (the normalised rows of
\* a SELECT, no rows otherwise) and its previous value when the run failed.
C10_QueryResultCache ==
  AfterEditorRun =>
    IF LastCall.reply.ok
    THEN IF LastCall.op = "query"
         THEN IsNormalisationOf(sql_query_result, LastCall.reply.val)
         ELSE sql_query_result = <<>>
    ELSE sql_query_result = pre.sql_query_result

C10_Witness ==
  /\ AfterEditorRun
  /\ ~LastCall.reply.ok
  /\ pre.sql_query_result # <<>>
  /\ sql_query_result = pre.sql_query_result
  /\ sql_editor_content = <<>>

\* C11: on TableView with a non-empty table list the table-selection index
\* is a position of the list, whatever keys were pressed.
C11_TableSelectionBound ==
  (current_screen = "TableView" /\ tables # <<>>) => selected_table < Len(tables)

\* C12: on DatabaseSelection, once the database names are fetched and the
\* list is non-empty, the database-selection index is a position of the list,
\* whatever engine index was chosen before.
C12_DatabaseSelectionBound ==
  (EventOn("DatabaseSelection") /\ databases # <<>>) =>
    selected_db_type < Len(databases)

\* C13: Up and Down leave the database-selection index alone while the
\* database list is empty, and the table-selection index alone while the
\* table list is empty.
UpOrDown == {Key("Up"), Key("Down")}
C13_EmptyListsDoNotMove ==
  [][/\ (databases = <<>> /\ \E key \in UpOrDown : handle_database_selection_input(key))
          => selected_db_type' = selected_db_type
     /\ (tables = <<>> /\ \E key \in UpOrDown : handle_table_view_input(key))
          => selected_table' = selected_table]_vars

\* C16: the backend is asked to describe a table only while the session has
\* no cached schema for it, so a table expanded, collapsed and expanded again
\* is described by the backend once.
C16_SchemaCacheHit ==
  (AtExit("describe_table") /\ backend_calls # <<>>) =>
    op.arg[1] \notin DOMAIN table_schemas

\* C17: whenever the screen is DbTypeSelection (initially, and after Esc on
\* ConnectionInput) the connection fields are empty and the active field is
\* Username.
BlankInput ==
  [username |-> <<>>, password |-> <<>>, hostname |-> <<>>,
   current_field |-> "Username"]
C17_EscDiscardsInput ==
  current_screen = "DbTypeSelection" => connection_input = BlankInput

\* C14: on DbTypeSelection the engine index is 0, 1 or 2; Up at 0 and Down
\* at 2 leave it where it is; Enter shows ConnectionInput and keeps the index.
C14_EngineSelection ==
  /\ [](current_screen = "DbTypeSelection" => selected_db_type \in 0..2)
  /\ [][/\ (handle_db_type_selection_input(Key("Up")) /\ selected_db_type = 0)
             => selected_db_type' = 0
        /\ (handle_db_type_selection_input(Key("Down")) /\ selected_db_type = 2)
             => selected_db_type' = 2
        /\ handle_db_type_selection_input(Key("Enter"))
             => /\ current_screen' = "ConnectionInput"
                /\ selected_db_type' = selected_db_type]_vars

C14_Witness ==
  /\ pc = "render" /\ current_screen = "ConnectionInput"
  /\ selected_db_type = 2
  /\ connection_input = BlankInput

\* C15: with the focus on the table list, Enter on a table that is not
\* expanded, when its describe succeeds, caches the returned schema under the
\* table's name and makes that table the expanded one (so the table expanded
\* before is no longer expanded); Enter on the expanded table leaves no table
\* expanded; never more than one table is expanded.
AfterDescribe == pc = "render" /\ op.name = "describe_table"
C15_ExpandCollapse ==
  /\ [](Len(expanded_table) <= 1)
  /\ []((AfterDescribe /\ res.ok) =>
          /\ selected_table < Len(tables)
          /\ op.arg = <<tables[selected_table + 1]>>
          /\ expanded_table = Some(selected_table)
          /\ op.arg[1] \in DOMAIN table_schemas
          /\ Len(backend_calls) = 1
          /\ LastCall.op = "describe_table" /\ LastCall.arg = op.arg
          /\ LastCall.reply.ok
          /\ table_schemas[op.arg[1]] = LastCall.reply.val)
  /\ [][(/\ handle_table_view_input(Key("Enter"))
         /\ current_focus = "TablesList"
         /\ selected_table < Len(tables)
         /\ expanded_table = Some(selected_table))
          => (expanded_table' = None /\ pc' = "render")]_vars

C15_Witness ==
  /\ AfterDescribe /\ res.ok
  /\ tables = <<"orders", "customers">>
  /\ "orders" \in DOMAIN table_schemas
  /\ pre.table_schemas # table_schemas
  /\ expanded_table = Some(1)

\* C18: on ConnectionInput, Enter in Username makes Password the active
\* field and Enter in Password makes Hostname the active field, both without
\* a connection attempt; Enter in Hostname starts connect_to_default_db, which
\* asks the backend to connect exactly once; the screen becomes
\* DatabaseSelection exactly when the attempt succeeded, and after a failed
\* attempt it is still ConnectionInput and an error message is recorded.
AfterDefaultConnect == pc = "render" /\ op.name = "connect_to_default_db"
EnterAdvances(field, next_field) ==
  (handle_input_event(Key("Enter")) /\ connection_input.current_field = field)
    => /\ connection_input' = [connection_input EXCEPT !.current_field = next_field]
       /\ pc' = "render"
       /\ UNCHANGED <<current_screen, op, backend_calls, connections>>
C18_ConnectionInputEnter ==
  /\ [](AfterDefaultConnect =>
          /\ Len(backend_calls) = 1
          /\ LastCall.op = "connect"
          /\ LastCall.reply.ok = res.ok
          /\ current_screen = "DatabaseSelection" <=> res.ok
          /\ ~res.ok => /\ current_screen = "ConnectionInput"
                        /\ connection_error_message # None)
  /\ [][/\ EnterAdvances("Username", "Password")
        /\ EnterAdvances("Password", "Hostname")
        /\ (handle_input_event(Key("Enter")) /\ connection_input.current_field = "Hostname")
             => /\ pc' = "op_lock"
                /\ op'.name = "connect_to_default_db"
                /\ UNCHANGED <<current_screen, connection_input>>]_vars

C18_Witness ==
  /\ AfterDefaultConnect /\ ~res.ok
  /\ current_screen = "ConnectionInput"
  /\ connection_input.current_field = "Hostname"
  /\ connection_error_message = Some(<<"Connection timed out">>)

\* C19: on DatabaseSelection, Enter with the index on a listed name starts
\* connect_to_selected_db with that name, which asks the backend to connect to
\* it; the screen becomes TableView when the connect succeeded and stays
\* DatabaseSelection when it failed; on success the table list is what
\* list_tables returned on the new connection, and the table index is 0.
C19_DatabaseSelectionEnter ==
  [][/\ (handle_database_selection_input(Key("Enter"))
           /\ selected_db_type < Len(databases))
          => /\ pc' = "op_lock"
             /\ op' = [name |-> "connect_to_selected_db",
                       arg |-> <<databases[selected_db_type + 1]>>]
     /\ handle_database_selection_input_connect
          => /\ Len(backend_calls) = 1
             /\ LastCall.op = "connect" /\ LastCall.arg = op.arg
             /\ LastCall.reply.ok = res.ok
             /\ current_screen' = (IF res.ok THEN "TableView" ELSE "DatabaseSelection")
     /\ (update_tables /\ current_screen = "TableView")
          => /\ selected_table' = 0
             /\ Len(connections) = 1
             /\ connections[1].db = databases[selected_db_type + 1]
             /\ Len(backend_calls) = 1
             /\ LastCall.op = "list_tables" /\ LastCall.conn = connections[1].id
             /\ LastCall.reply.ok => tables' = LastCall.reply.val]_vars

C19_Witness ==
  /\ pc = "render" /\ op.name = "fetch_tables" /\ ret = <<>>
  /\ current_screen = "TableView"
  /\ Len(connections) = 1 /\ connections[1].db = "sales"
  /\ tables = <<"orders", "customers">>
  /\ selected_table = 0
  /\ sql_query_result = <<>> /\ table_schemas = <<>>

\* C20: in the SQL editor, Enter on a non-empty buffer runs the buffered
\* text, which is sent to the backend exactly once, and the buffer is empty
\* afterwards whether the run succeeded or failed; Enter on an empty buffer
\* sends nothing and changes nothing of the session.
C20_EditorEnter ==
  [][/\ (handle_sql_editor_input(Key("Enter")) /\ sql_editor_content = <<>>)
          => /\ pc' = "render"
             /\ UNCHANGED <<ui_vars, sql_query_result, connection_error_message,
                            connections, lock_holder, next_conn, elapsed,
                            backend_calls, pre, op, ret, res>>
     /\ (handle_sql_editor_input(Key("Enter")) /\ sql_editor_content # <<>>)
          => /\ pc' = "op_lock"
             /\ op' = [name |-> "execute_sql_query", arg |-> sql_editor_content]
     /\ handle_sql_editor_input_execute
          => /\ op.arg = sql_editor_content
             /\ Len(backend_calls) = 1
             /\ LastCall.op \in {"query", "execute"}
             /\ LastCall.arg = trim(op.arg)
             /\ sql_editor_content' = <<>>]_vars

C20_Witness ==
  /\ AfterEditorRun
  /\ LastCall.op = "execute" /\ ~LastCall.reply.ok
  /\ LastCall.arg # <<>>
  /\ sql_editor_content = <<>>

\* C21: when the describe_table started by Enter on a table that is not
\* expanded fails, no step from the key to the end of its handling changes the
\* expanded-table index, the schema cache, the screen or the focus, so a
\* table expanded earlier is still expanded.
DescribeInFlight ==
  /\ op.name = "describe_table"
  /\ pc \in {"op_lock", "op_run", "op_exit", "handle_table_view_input_describe"}
C21_DescribeFailureKeepsState ==
  /\ []((AfterDescribe /\ ~res.ok) => table_schemas = pre.table_schemas)
  /\ [][/\ (handle_table_view_input(Key("Enter")) /\ pc' = "op_lock")
             => UNCHANGED <<expanded_table, table_schemas, current_screen, current_focus>>
        /\ (DescribeInFlight /\ ~(pc' = "render" /\ res.ok))
             => UNCHANGED <<expanded_table, table_schemas, current_screen, current_focus>>]_vars

C21_Witness ==
  /\ AfterDescribe /\ ~res.ok
  /\ tables = <<"orders", "customers">>
  /\ selected_table = 1
  /\ expanded_table = Some(0)
  /\ DOMAIN table_schemas = {"orders"}

\* C22: Tab on TableView moves the focus from TablesList to SqlEditor, from
\* SqlEditor to QueryResult and from QueryResult to TablesList, so three Tabs
\* bring the focus back; neither Tab nor the redraw that follows it in the
\* editor changes the table index, the expanded table, the editor buffer, the
\* cached result or the screen.
FocusAfter(focus) ==
  CASE focus = "TablesList" -> "SqlEditor"
    [] focus = "SqlEditor" -> "QueryResult"
    [] OTHER -> "TablesList"
TabKeeps ==
  UNCHANGED <<current_screen, selected_db_type, selected_table, expanded_table,
              databases, tables, table_schemas, sql_editor_content, sql_query_result,
              connection_input, connections>>
EditorRedraw ==
  /\ ret # <<>> /\ Head(ret) = "render_table_view_screen"
  /\ ret[Len(ret)] = "render"
C22_FocusCycle ==
  /\ [](cycle_focus(cycle_focus(cycle_focus(current_focus))) = current_focus)
  /\ [][/\ (handle_table_view_input(Key("Tab")) \/ handle_sql_editor_input(Key("Tab")))
             => /\ current_focus' = FocusAfter(current_focus)
                /\ TabKeeps
        /\ (EditorRedraw /\ pc # "read") => (TabKeeps /\ UNCHANGED current_focus)]_vars

C22_Witness ==
  /\ pc = "op_lock" /\ EditorRedraw
  /\ current_screen = "TableView"
  /\ current_focus = "QueryResult"
  /\ sql_editor_content # <<>>

\* C23: the connection attempt that Enter on Hostname starts is made with
\* the engine at the index selected on DbTypeSelection (0 Postgres, 1 MySQL,
\* 2 SQLite).
C23_EngineHonoured ==
  (AtExit("connect_to_default_db") /\ backend_calls # <<>>) =>
    LastCall.engine = db_types[selected_db_type + 1]

\* C24: the screen changes only from DbTypeSelection to ConnectionInput on
\* Enter, from ConnectionInput to DbTypeSelection on Esc, from ConnectionInput
\* to DatabaseSelection right after a successful connect_to_default_db, and
\* from DatabaseSelection to TableView right after a successful
\* connect_to_selected_db; so nothing leaves TableView and DatabaseSelection
\* never goes back.
ScreenStep(from, to) == current_screen = from /\ current_screen' = to
C24_ScreenTransitions ==
  [][current_screen' # current_screen =>
       \/ /\ ScreenStep("DbTypeSelection", "ConnectionInput")
          /\ handle_db_type_selection_input(Key("Enter"))
       \/ /\ ScreenStep("ConnectionInput", "DbTypeSelection")
          /\ handle_input_event(Key("Esc"))
       \/ /\ ScreenStep("ConnectionInput", "DatabaseSelection")
          /\ pc = "handle_input_event_connect"
          /\ op.name = "connect_to_default_db" /\ res.ok
       \/ /\ ScreenStep("DatabaseSelection", "TableView")
          /\ pc = "handle_database_selection_input_connect"
          /\ op.name = "connect_to_selected_db" /\ res.ok]_vars

C24_Witness ==
  /\ current_screen = "TableView"
  /\ pc = "op_lock" /\ op.name = "fetch_tables" /\ ret = <<"update_tables", "render">>
  /\ connection_input.hostname # <<>>
  /\ tables = <<>>

\* C25: whenever the screen is TableView the slot holds exactly one
\* connection: the one opened last, by the connect_to_selected_db that
\* brought the screen there, to the database selected on DatabaseSelection.
C25_TableViewConnection ==
  current_screen = "TableView" =>
    /\ Len(connections) = 1
    /\ connections[1].id = next_conn - 1
    /\ selected_db_type < Len(databases)
    /\ connections[1].db = databases[selected_db_type + 1]

C25_Witness ==
  /\ EventOn("TableView")
  /\ Len(connections) = 1
  /\ connections[1].db = "hr"
  /\ sql_query_result # <<>>

\* C26: in every state, when a table is expanded its index is a position of
\* the table list and the schema cache has an entry for the name at that
\* position.
C26_ExpansionConsistency ==
  expanded_table # None =>
    /\ expanded_table[1] < Len(tables)
    /\ tables[expanded_table[1] + 1] \in DOMAIN table_schemas

C26_Witness ==
  /\ EventOn("TableView")
  /\ tables = <<"orders", "customers">>
  /\ expanded_table = Some(1)
  /\ DOMAIN table_schemas = {"customers"}

\* C27: Enter on TableView with the focus on the table list starts a
\* describe only for the name at the selected position of the table list,
\* which then exists; when the table list is empty or the selected index is
\* not below its length, Enter calls nothing on the backend and leaves the
\* expanded-table index and the schema cache as they were.
EnterOnTablesList ==
  handle_table_view_input(Key("Enter")) /\ current_focus = "TablesList"
C27_GuardedTableAccess ==
  [][/\ (EnterOnTablesList /\ pc' = "op_lock")
          => /\ selected_table < Len(tables)
             /\ op' = [name |-> "describe_table", arg |-> <<tables[selected_table + 1]>>]
     /\ (EnterOnTablesList /\ (tables = <<>> \/ selected_table >= Len(tables)))
          => /\ pc' = "render"
             /\ UNCHANGED <<expanded_table, table_schemas, op, backend_calls,
                            selected_table, tables>>]_vars

C27_Witness ==
  /\ pc = "render" /\ op = NoOp
  /\ current_screen = "TableView" /\ current_focus = "TablesList"
  /\ tables = <<"staff">>
  /\ selected_table = 1
  /\ expanded_table = Some(0)


====
